---------------------------- MODULE Spec2Model ----------------------------
(***************************************************************************)
(* GeolocationWizard (src/src/components/GeolocationWizard.tsx) mounted by *)
(* App (src/unnamed/part_000): a three-step wizard over a map, with        *)
(* fire-and-forget reverse-geocoding requests.                             *)
(*                                                                         *)
(* Numbers.  A coordinate is a JavaScript number; the model keeps it as an *)
(* integer count of 1e-7 degrees (decimal fixed point), one digit finer    *)
(* than the 6 decimals toFixed(6) prints, so that printing rounds.         *)
(* Text.  A typed text is a sequence of one-character strings.             *)
(***************************************************************************)
EXTENDS Integers, Sequences, FiniteSets, Bags, TLC

VARIABLES currentStep, interactionMode, mapCenter, mapZoom, projectLocation,
          projectExtent, buildingLocation, buildingRotation, searchAddress,
          wizardResult, pending, completeCalls

vars == <<currentStep, interactionMode, mapCenter, mapZoom, projectLocation,
          projectExtent, buildingLocation, buildingRotation, searchAddress,
          wizardResult, pending, completeCalls>>

\* the wizard's own React state (everything a result record is built from)
wizardVars == <<currentStep, interactionMode, mapCenter, mapZoom,
                projectLocation, projectExtent, buildingLocation,
                buildingRotation, searchAddress>>

\* JavaScript null, comparable with a [lat, lng] pair
NULL == <<>>

\* a JavaScript number that is NaN, and one that is the value v
NaN == [nan |-> TRUE, value |-> 0]

Num(v) == [nan |-> FALSE, value |-> v]

\* model units per degree
Scale == 10 ^ 7

---------------------------------------------------------------------------
(* Bounds of the model *)

\* at most this many reverse-geocoding requests are in flight at once
MaxPending == 2

\* the rotation stepper is pressed while |rotation| stays within 15 * MaxTurns
\* (Spec, SpecEdit) or within 15 * ManyTurns (SpecRotation)
MaxTurns == 1

ManyTurns == 25

---------------------------------------------------------------------------
(* Text and number conversions *)

IsDigit(c) == c \in {"0", "1", "2", "3", "4", "5", "6", "7", "8", "9"}

DigitVal(c) ==
  CASE c = "0" -> 0 [] c = "1" -> 1 [] c = "2" -> 2 [] c = "3" -> 3
    [] c = "4" -> 4 [] c = "5" -> 5 [] c = "6" -> 6 [] c = "7" -> 7
    [] c = "8" -> 8 [] c = "9" -> 9

\* number of consecutive digits of s from position i on
RECURSIVE DigitRun(_, _)
DigitRun(s, i) ==
  IF i <= Len(s) /\ IsDigit(s[i]) THEN 1 + DigitRun(s, i + 1) ELSE 0

\* value of the n digits of s that start at position i
RECURSIVE IntValue(_, _, _)
IntValue(s, i, n) ==
  IF n = 0 THEN 0 ELSE IntValue(s, i, n - 1) * 10 + DigitVal(s[i + n - 1])

\* value, in model units, of the fraction digits s[i .. i+n-1]; digits past
\* the 7th are below the model's resolution
RECURSIVE FracValue(_, _, _, _)
FracValue(s, i, n, weight) ==
  IF n = 0 \/ weight = 0 THEN 0
  ELSE DigitVal(s[i]) * weight + FracValue(s, i + 1, n - 1, weight \div 10)

\* the decimal literal digits [. digits] | . digits at position i of s:
\* its length (0 when there is none) and its value in model units
DecimalLiteral(s, i) ==
  LET n == DigitRun(s, i)
      dot == i + n <= Len(s) /\ s[i + n] = "."
      m == IF dot THEN DigitRun(s, i + n + 1) ELSE 0
  IN  IF n = 0 /\ m = 0 THEN [len |-> 0, value |-> 0]
      ELSE [len |-> n + (IF dot THEN 1 + m ELSE 0),
            value |-> IntValue(s, i, n) * Scale
                       + FracValue(s, i + n + 1, m, Scale \div 10)]

\* String.prototype.trim
RECURSIVE TrimStart(_)
TrimStart(s) == IF s # <<>> /\ Head(s) = " " THEN TrimStart(Tail(s)) ELSE s

RECURSIVE TrimEnd(_)
TrimEnd(s) ==
  IF s # <<>> /\ s[Len(s)] = " " THEN TrimEnd(SubSeq(s, 1, Len(s) - 1)) ELSE s

trim(s) == TrimEnd(TrimStart(s))

\* a parse that yields 0 where parseFloat yields NaN
parseFloatOrZero(text) ==
  LET s == TrimStart(text)
      signed == s # <<>> /\ Head(s) \in {"-", "+"}
      lit == DecimalLiteral(s, IF signed THEN 2 ELSE 1)
  IN  IF signed /\ Head(s) = "-" THEN Num(0 - lit.value) ELSE Num(lit.value)

\* parseFloat: leading white space skipped, optional sign, then the longest
\* decimal literal; anything after it is ignored; NaN when there is none
parseFloat(text) ==
  LET s == TrimStart(text)
      signed == s # <<>> /\ Head(s) \in {"-", "+"}
      lit == DecimalLiteral(s, IF signed THEN 2 ELSE 1)
  IN  IF lit.len = 0 THEN NaN
      ELSE IF signed /\ Head(s) = "-" THEN Num(0 - lit.value)
      ELSE Num(lit.value)

isNaN(x) == x.nan

\* Number(text): the whole text must be one signed decimal literal
Number(text) ==
  LET s == trim(text)
      signed == s # <<>> /\ Head(s) \in {"-", "+"}
      start == IF signed THEN 2 ELSE 1
      lit == DecimalLiteral(s, start)
  IN  IF s = <<>> THEN Num(0)
      ELSE IF lit.len = 0 \/ start + lit.len - 1 # Len(s) THEN NaN
      ELSE IF Head(s) = "-" THEN Num(0 - lit.value) ELSE Num(lit.value)

\* Number.prototype.toFixed(6): the sign and the count of 1e-6 units,
\* rounded half away from zero
toFixed6(x) ==
  LET a == IF x < 0 THEN 0 - x ELSE x
  IN  [neg |-> x < 0, micro |-> (a + 5) \div 10]

\* String.prototype.split(','): the pieces between the commas
RECURSIVE split(_)
split(s) ==
  IF \E i \in 1..Len(s) : s[i] = ","
  THEN LET i == CHOOSE k \in 1..Len(s) :
                  s[k] = "," /\ \A j \in 1..(k - 1) : s[j] # ","
       IN  <<SubSeq(s, 1, i - 1)>> \o split(SubSeq(s, i + 1, Len(s)))
  ELSE <<s>>

\* one side of coordPattern: -?\d+\.?\d*
CoordPart(p) ==
  LET start == IF p # <<>> /\ Head(p) = "-" THEN 2 ELSE 1
      n == DigitRun(p, start)
      dot == start + n <= Len(p) /\ p[start + n] = "."
      m == IF dot THEN DigitRun(p, start + n + 1) ELSE 0
  IN  n >= 1 /\ start + n + (IF dot THEN 1 + m ELSE 0) - 1 = Len(p)

\* coordPattern.test(searchTerm), /^-?\d+\.?\d*,-?\d+\.?\d*$/
coordPattern(searchTerm) ==
  LET parts == split(searchTerm)
  IN  Len(parts) = 2 /\ CoordPart(parts[1]) /\ CoordPart(parts[2])


---------------------------------------------------------------------------
(* Texts the search box can hold *)

\* a text typed by the user
Typed(chars) == [kind |-> "typed", text |-> chars]

\* the template literal `${lat.toFixed(6)}, ${lng.toFixed(6)}`
CoordText(lat, lng) ==
  [kind |-> "coords", lat |-> toFixed6(lat), lng |-> toFixed6(lng)]

\* data.display_name of the service's answer for (lat, lng)
DisplayName(lat, lng) == [kind |-> "name", lat |-> lat, lng |-> lng]

\* what a fetch can do
Outcomes == {"name", "no_name", "not_ok", "bad_body", "network_error"}

\* reverseGeocode returning data.display_name as it is
reverseGeocodeNoDefault(lat, lng, outcome) ==
  IF outcome = "network_error" THEN CoordText(lat, lng)
  ELSE IF outcome # "not_ok"
       THEN IF outcome = "bad_body" THEN CoordText(lat, lng)
            ELSE IF outcome = "name" THEN DisplayName(lat, lng)
                 ELSE Typed(<<>>)
       ELSE CoordText(lat, lng)

\* reverseGeocode(lat, lng), given what the fetch did
reverseGeocode(lat, lng, outcome) ==
  IF outcome = "network_error" THEN CoordText(lat, lng)   \* fetch throws
  ELSE IF outcome # "not_ok"                               \* response.ok
       THEN IF outcome = "bad_body" THEN CoordText(lat, lng) \* json() throws
            ELSE IF outcome = "name" THEN DisplayName(lat, lng)
                 ELSE CoordText(lat, lng)                  \* falsy || fallback
       ELSE CoordText(lat, lng)

\* geocodeLocation reading the text as 'lng,lat'
geocodeLocationSwapped(searchTerm) ==
  IF coordPattern(searchTerm)
  THEN LET parts == split(searchTerm)
       IN  <<Number(parts[2]).value, Number(parts[1]).value>>
  ELSE <<407128000, -740060000>>

\* geocodeLocation(searchTerm)
geocodeLocation(searchTerm) ==
  IF coordPattern(searchTerm)
  THEN LET parts == split(searchTerm)
       IN  <<Number(parts[1]).value, Number(parts[2]).value>>
  ELSE <<407128000, -740060000>>

---------------------------------------------------------------------------
(* State *)

\* an in-flight fetch of reverseGeocode(lat, lng)
Request(lat, lng) == SetToBag({[lat |-> lat, lng |-> lng]})

InFlight == BagCardinality(pending)

\* GeolocationWizard is rendered while App holds no result (wizardResult is
\* NULL, or the one-element tuple of the result record)
Mounted == wizardResult = NULL

\* the useState initial values of a freshly mounted wizard
Fresh ==
  /\ currentStep = 0
  /\ interactionMode = "drag"
  /\ mapCenter = <<398283000, -985795000>>
  /\ mapZoom = 4
  /\ projectLocation = NULL
  /\ projectExtent = [center |-> NULL, radius |-> 1000]
  /\ buildingLocation = NULL
  /\ buildingRotation = 0
  /\ searchAddress = Typed(<<>>)

Init ==
  /\ Fresh
  /\ wizardResult = NULL
  /\ pending = EmptyBag
  /\ completeCalls = 0

\* a Next button that is never disabled
canProceedAlways == TRUE

\* canProceed asking for a building at step 2
canProceedWithBuilding ==
  IF currentStep = 0 THEN projectLocation # NULL
  ELSE IF currentStep = 1 THEN projectExtent.center # NULL
  ELSE buildingLocation # NULL

\* canProceed without its step 0 case
canProceedAnyStep ==
  IF currentStep = 1 THEN projectExtent.center # NULL ELSE TRUE

canProceed ==
  IF currentStep = 0 THEN projectLocation # NULL
  ELSE IF currentStep = 1 THEN projectExtent.center # NULL
  ELSE TRUE

\* a result that reports the extent's center as the project location
ResultOfExtent ==
  [projectLocation |-> projectExtent.center, projectExtent |-> projectExtent,
   buildingLocation |-> buildingLocation,
   buildingRotation |-> buildingRotation,
   interactionMode |-> interactionMode]

\* the WizardResult literal of handleNext
Result ==
  [projectLocation |-> projectLocation, projectExtent |-> projectExtent,
   buildingLocation |-> buildingLocation,
   buildingRotation |-> buildingRotation,
   interactionMode |-> interactionMode]

---------------------------------------------------------------------------
(* Operations *)

\* a click that recenters the map in either interaction mode
handleMapClickRecentering(latlng) ==
  /\ Mounted
  /\ mapCenter' = latlng
  /\ IF currentStep = 0
     THEN /\ InFlight < MaxPending
          /\ projectLocation' = latlng
          /\ pending' = pending (+) Request(latlng[1], latlng[2])
          /\ UNCHANGED <<projectExtent, buildingLocation>>
     ELSE IF currentStep = 1
     THEN /\ projectExtent' = [center |-> latlng, radius |-> 1000]
          /\ UNCHANGED <<projectLocation, buildingLocation, pending>>
     ELSE /\ buildingLocation' = latlng
          /\ UNCHANGED <<projectLocation, projectExtent, pending>>
  /\ UNCHANGED <<currentStep, interactionMode, mapZoom, buildingRotation,
                 searchAddress, wizardResult, completeCalls>>

handleMapClick(latlng) ==
  /\ Mounted
  /\ mapCenter' = IF interactionMode = "center" THEN latlng ELSE mapCenter
  /\ IF currentStep = 0
     THEN /\ InFlight < MaxPending
          /\ projectLocation' = latlng
          /\ pending' = pending (+) Request(latlng[1], latlng[2])
          /\ UNCHANGED <<projectExtent, buildingLocation>>
     ELSE IF currentStep = 1
     THEN /\ projectExtent' = [center |-> latlng, radius |-> 1000]
          /\ UNCHANGED <<projectLocation, buildingLocation, pending>>
     ELSE /\ buildingLocation' = latlng
          /\ UNCHANGED <<projectLocation, projectExtent, pending>>
  /\ UNCHANGED <<currentStep, interactionMode, mapZoom, buildingRotation,
                 searchAddress, wizardResult, completeCalls>>

\* the update without ...prev: the radius is lost
withCenterOnly(prev, latlng) == [center |-> latlng, radius |-> 0]

\* the updater prev => ({ ...prev, center: [latlng.lat, latlng.lng] })
withCenter(prev, latlng) == [prev EXCEPT !.center = latlng]

handleMarkerDrag(latlng, type) ==
  /\ Mounted
  /\ interactionMode = "drag"
  /\ CASE type = "project" ->
            /\ projectLocation # NULL
            /\ projectLocation' = latlng
            /\ IF currentStep = 0
               THEN /\ InFlight < MaxPending
                    /\ pending' = pending (+) Request(latlng[1], latlng[2])
               ELSE UNCHANGED pending
            /\ UNCHANGED <<projectExtent, buildingLocation>>
       [] type = "extent" ->
            /\ currentStep >= 1
            /\ projectExtent.center # NULL
            /\ projectExtent' = withCenter(projectExtent, latlng)
            /\ UNCHANGED <<projectLocation, buildingLocation, pending>>
       [] type = "building" ->
            /\ currentStep >= 2
            /\ buildingLocation # NULL
            /\ buildingLocation' = latlng
            /\ UNCHANGED <<projectLocation, projectExtent, pending>>
  /\ UNCHANGED <<currentStep, interactionMode, mapCenter, mapZoom,
                 buildingRotation, searchAddress, wizardResult,
                 completeCalls>>

handleCoordinateChange(lat, lng) ==
  /\ InFlight < MaxPending
  /\ projectLocation' = <<lat, lng>>
  /\ mapCenter' = <<lat, lng>>
  /\ pending' = pending (+) Request(lat, lng)

\* CoordinateTooltip: the latitude input changes to the text value
handleLatChange(value) ==
  /\ Mounted
  /\ currentStep = 0
  /\ projectLocation # NULL
  /\ LET numValue == parseFloat(value)
     IN  IF ~isNaN(numValue) /\ numValue.value >= -90 * Scale
                             /\ numValue.value <= 90 * Scale
         THEN handleCoordinateChange(numValue.value, projectLocation[2])
         ELSE UNCHANGED <<projectLocation, mapCenter, pending>>
  /\ UNCHANGED <<currentStep, interactionMode, mapZoom, projectExtent,
                 buildingLocation, buildingRotation, searchAddress,
                 wizardResult, completeCalls>>

\* CoordinateTooltip: the longitude input changes to the text value
handleLngChange(value) ==
  /\ Mounted
  /\ currentStep = 0
  /\ projectLocation # NULL
  /\ LET numValue == parseFloat(value)
     IN  IF ~isNaN(numValue) /\ numValue.value >= -180 * Scale
                             /\ numValue.value <= 180 * Scale
         THEN handleCoordinateChange(projectLocation[1], numValue.value)
         ELSE UNCHANGED <<projectLocation, mapCenter, pending>>
  /\ UNCHANGED <<currentStep, interactionMode, mapZoom, projectExtent,
                 buildingLocation, buildingRotation, searchAddress,
                 wizardResult, completeCalls>>

handleSearch(searchTerm) ==
  LET location == geocodeLocation(searchTerm)
  IN  /\ mapCenter' = location
      /\ mapZoom' = 15
      /\ IF currentStep = 0
         THEN /\ projectLocation' = location
              /\ IF coordPattern(searchTerm)
                 THEN /\ searchAddress' = Typed(searchTerm)
                      /\ UNCHANGED pending
                 ELSE /\ InFlight < MaxPending
                      /\ pending' = pending (+) Request(location[1], location[2])
                      /\ UNCHANGED searchAddress
         ELSE UNCHANGED <<projectLocation, searchAddress, pending>>

\* SearchInput.handleSubmit: the form is submitted holding searchValue
handleSubmit(searchValue) ==
  /\ Mounted
  /\ currentStep = 0
  /\ IF trim(searchValue) # <<>>
     THEN handleSearch(trim(searchValue))
     ELSE UNCHANGED <<mapCenter, mapZoom, projectLocation, searchAddress,
                      pending>>
  /\ UNCHANGED <<currentStep, interactionMode, projectExtent,
                 buildingLocation, buildingRotation, wizardResult,
                 completeCalls>>

\* InteractionModeToggle: one of the two mode buttons is pressed
onModeChange(mode) ==
  /\ Mounted
  /\ interactionMode' = mode
  /\ UNCHANGED <<currentStep, mapCenter, mapZoom, projectLocation,
                 projectExtent, buildingLocation, buildingRotation,
                 searchAddress, wizardResult, pending, completeCalls>>

\* a stepper that is shown at every step, with or without a building
onRotationChangeAlwaysVisible(delta, maxTurns) ==
  /\ Mounted
  /\ buildingRotation + delta <= 15 * maxTurns
  /\ buildingRotation + delta >= -15 * maxTurns
  /\ buildingRotation' = buildingRotation + delta
  /\ UNCHANGED <<currentStep, interactionMode, mapCenter, mapZoom,
                 projectLocation, projectExtent, buildingLocation,
                 searchAddress, wizardResult, pending, completeCalls>>

\* a stepper that keeps the rotation within a turn
onRotationChangeWrapped(delta, maxTurns) ==
  /\ Mounted
  /\ currentStep = 2 /\ buildingLocation # NULL
  /\ buildingRotation + delta <= 15 * maxTurns
  /\ buildingRotation + delta >= -15 * maxTurns
  /\ buildingRotation' = (buildingRotation + delta) % 360
  /\ UNCHANGED <<currentStep, interactionMode, mapCenter, mapZoom,
                 projectLocation, projectExtent, buildingLocation,
                 searchAddress, wizardResult, pending, completeCalls>>

\* BuildingRotationControl: a stepper button is pressed (delta is -15 or 15)
onRotationChange(delta, maxTurns) ==
  /\ Mounted
  /\ currentStep = 2 /\ buildingLocation # NULL
  /\ buildingRotation + delta <= 15 * maxTurns
  /\ buildingRotation + delta >= -15 * maxTurns
  /\ buildingRotation' = buildingRotation + delta
  /\ UNCHANGED <<currentStep, interactionMode, mapCenter, mapZoom,
                 projectLocation, projectExtent, buildingLocation,
                 searchAddress, wizardResult, pending, completeCalls>>

\* App.handleWizardComplete
handleWizardComplete(result) ==
  /\ wizardResult' = <<result>>
  /\ completeCalls' = completeCalls + 1

\* Next that creates the extent only when there is none yet
handleNextKeepingExtent ==
  /\ Mounted
  /\ canProceed
  /\ IF currentStep < 2
     THEN /\ currentStep' = currentStep + 1
          /\ IF currentStep = 0 /\ projectLocation # NULL
             THEN /\ mapCenter' = projectLocation
                  /\ mapZoom' = 14
                  /\ projectExtent' =
                       IF projectExtent.center = NULL
                       THEN [center |-> projectLocation, radius |-> 1000]
                       ELSE projectExtent
             ELSE UNCHANGED <<mapCenter, mapZoom, projectExtent>>
          /\ UNCHANGED <<wizardResult, completeCalls>>
     ELSE /\ handleWizardComplete(Result)
          /\ UNCHANGED <<currentStep, mapCenter, mapZoom, projectExtent>>
  /\ UNCHANGED <<interactionMode, projectLocation, buildingLocation,
                 buildingRotation, searchAddress, pending>>

\* the Next / Finish button
handleNext ==
  /\ Mounted
  /\ canProceed
  /\ IF currentStep < 2
     THEN /\ currentStep' = currentStep + 1
          /\ IF currentStep = 0 /\ projectLocation # NULL
             THEN /\ mapCenter' = projectLocation
                  /\ mapZoom' = 14
                  /\ projectExtent' =
                       [center |-> projectLocation, radius |-> 1000]
             ELSE UNCHANGED <<mapCenter, mapZoom, projectExtent>>
          /\ UNCHANGED <<wizardResult, completeCalls>>
     ELSE /\ handleWizardComplete(Result)
          /\ UNCHANGED <<currentStep, mapCenter, mapZoom, projectExtent>>
  /\ UNCHANGED <<interactionMode, projectLocation, buildingLocation,
                 buildingRotation, searchAddress, pending>>

\* Previous without its currentStep > 0 test
handlePreviousUnguarded ==
  /\ Mounted
  /\ currentStep' = currentStep - 1
  /\ UNCHANGED <<interactionMode, mapCenter, mapZoom, projectLocation,
                 projectExtent, buildingLocation, buildingRotation,
                 searchAddress, wizardResult, pending, completeCalls>>

\* the Previous button
handlePrevious ==
  /\ Mounted
  /\ currentStep > 0
  /\ currentStep' = currentStep - 1
  /\ UNCHANGED <<interactionMode, mapCenter, mapZoom, projectLocation,
                 projectExtent, buildingLocation, buildingRotation,
                 searchAddress, wizardResult, pending, completeCalls>>

\* a fetch of reverseGeocode settles and the awaiting handler continues with
\* setSearchAddress(address); an unmounted wizard ignores it
GeocodeResponse(req, outcome) ==
  /\ BagIn(req, pending)
  /\ pending' = pending (-) SetToBag({req})
  /\ searchAddress' = IF Mounted
                      THEN reverseGeocode(req.lat, req.lng, outcome)
                      ELSE searchAddress
  /\ UNCHANGED <<currentStep, interactionMode, mapCenter, mapZoom,
                 projectLocation, projectExtent, buildingLocation,
                 buildingRotation, wizardResult, completeCalls>>

\* App.handleWizardReset: the result is dropped and a new wizard is mounted;
\* what the old one still awaited is lost with it
handleWizardReset ==
  /\ ~Mounted
  /\ wizardResult' = NULL
  /\ currentStep' = 0
  /\ interactionMode' = "drag"
  /\ mapCenter' = <<398283000, -985795000>>
  /\ mapZoom' = 4
  /\ projectLocation' = NULL
  /\ projectExtent' = [center |-> NULL, radius |-> 1000]
  /\ buildingLocation' = NULL
  /\ buildingRotation' = 0
  /\ searchAddress' = Typed(<<>>)
  /\ pending' = EmptyBag
  /\ completeCalls' = 0

---------------------------------------------------------------------------
(* Inputs *)

\* (48.1234567, 11.3456784) and (-33.7654325, -70.4567891)
LatLngs == {<<481234567, 113456784>>, <<-337654325, -704567891>>}

MarkerTypes == {"project", "extent", "building"}

LatTexts == {<<"9", "0">>, <<"9", "0", ".", "0", "0", "0", "0", "0", "0", "1">>,
             <<"-">>, <<>>}

LngTexts == {<<"-", "1", "8", "0">>, <<"1", "8", "0", ".", "5">>, <<>>}

SearchTexts == {<<"9", "5", ",", "2", "0", "0">>,
                <<" ", "O", "s", "l", "o">>, <<" ", " ">>}

\* every operation, with its inputs drawn from the sets of in
NextOn(in) ==
  \/ \E latlng \in in.clicks : handleMapClick(latlng)
  \/ \E latlng \in in.drags, type \in MarkerTypes :
       handleMarkerDrag(latlng, type)
  \/ \E value \in in.latTexts : handleLatChange(value)
  \/ \E value \in in.lngTexts : handleLngChange(value)
  \/ \E searchValue \in in.searchTexts : handleSubmit(searchValue)
  \/ \E mode \in {"drag", "center"} : onModeChange(mode)
  \/ \E delta \in {-15, 15} : onRotationChange(delta, in.maxTurns)
  \/ handleNext
  \/ handlePrevious
  \/ \E req \in BagToSet(pending), outcome \in Outcomes :
       GeocodeResponse(req, outcome)
  \/ handleWizardReset

\* Spec: a click point and a drag point, a 'lat,lng' search and a blank one,
\* and tooltip texts that do not parse to a coordinate in range
Inputs ==
  [clicks |-> {<<481234567, 113456784>>},
   drags |-> {<<-337654325, -704567891>>},
   latTexts |-> {<<"-">>, <<>>},
   lngTexts |-> {<<"1", "8", "0", ".", "5">>, <<>>},
   searchTexts |-> {<<"9", "5", ",", "2", "0", "0">>, <<" ", " ">>},
   maxTurns |-> MaxTurns]

\* SpecSearch: one point to click and drag to, and every search text
SearchInputs ==
  [clicks |-> {<<481234567, 113456784>>},
   drags |-> {<<481234567, 113456784>>},
   latTexts |-> {<<"-">>, <<>>},
   lngTexts |-> {<<"1", "8", "0", ".", "5">>, <<>>},
   searchTexts |-> SearchTexts,
   maxTurns |-> MaxTurns]

\* SpecEdit: one point to click and drag to, every tooltip text, and a
\* blank search
EditInputs ==
  [clicks |-> {<<481234567, 113456784>>},
   drags |-> {<<481234567, 113456784>>},
   latTexts |-> LatTexts,
   lngTexts |-> LngTexts,
   searchTexts |-> {<<" ", " ">>},
   maxTurns |-> MaxTurns]

\* SpecRotation: as Spec without the searches, and many stepper presses
RotationInputs ==
  [clicks |-> {<<481234567, 113456784>>},
   drags |-> {<<-337654325, -704567891>>},
   latTexts |-> {<<"-">>, <<>>},
   lngTexts |-> {<<"1", "8", "0", ".", "5">>, <<>>},
   searchTexts |-> {<<" ", " ">>},
   maxTurns |-> ManyTurns]

Next == NextOn(Inputs)

Spec == Init /\ [][Next]_vars

NextEdit == NextOn(EditInputs)

SpecEdit == Init /\ [][NextEdit]_vars

NextSearch == NextOn(SearchInputs)

SpecSearch == Init /\ [][NextSearch]_vars

NextRotation == NextOn(RotationInputs)

SpecRotation == Init /\ [][NextRotation]_vars

---------------------------------------------------------------------------
(* Claims *)

\* C1: at step 0 Next is disabled while no project location is set; a map
\* click at step 0 sets the project location to exactly the clicked point
\* and leaves Next enabled, with the click's request still in flight; and a
\* project location that is set stays set (so Next stays enabled at step 0)
\* whatever the request does, for as long as this wizard is mounted.
C1_ClickEnablesNext ==
  [][ /\ (currentStep = 0 /\ projectLocation = NULL) => ~canProceed
      /\ \A latlng \in LatLngs :
           (currentStep = 0 /\ handleMapClick(latlng))
             => /\ projectLocation' = latlng
                /\ canProceed'
                /\ BagIn([lat |-> latlng[1], lng |-> latlng[2]], pending')
      /\ (projectLocation # NULL /\ ~handleWizardReset)
           => /\ projectLocation' # NULL
              /\ currentStep' = 0 => canProceed'
    ]_vars

\* the project location was set by a click, its request is in flight, and
\* Next is enabled
C1_Witness ==
  /\ Mounted /\ currentStep = 0
  /\ projectLocation = <<481234567, 113456784>>
  /\ BagIn([lat |-> 481234567, lng |-> 113456784], pending)
  /\ canProceed

\* C2: the extent's radius is 1000 in the initial state and after every
\* operation; a map click at step 1 and Next at step 0 create the extent
\* with radius 1000; dragging the extent marker moves the center to the
\* drop point, keeps the radius and changes nothing else.
C2_RadiusIs1000 ==
  [][ /\ projectExtent.radius = 1000
      /\ projectExtent'.radius = 1000
      /\ \A latlng \in LatLngs :
           (currentStep = 1 /\ handleMapClick(latlng))
             => projectExtent' = [center |-> latlng, radius |-> 1000]
      /\ (currentStep = 0 /\ handleNext)
           => projectExtent' = [center |-> projectLocation, radius |-> 1000]
      /\ \A latlng \in LatLngs :
           handleMarkerDrag(latlng, "extent")
             => /\ projectExtent'.center = latlng
                /\ projectExtent'.radius = projectExtent.radius
                /\ UNCHANGED <<currentStep, interactionMode, mapCenter,
                               mapZoom, projectLocation, buildingLocation,
                               buildingRotation, searchAddress, wizardResult,
                               pending, completeCalls>>
    ]_vars

\* the extent's center is the drag point of Spec while the project location
\* is its click point
C2_Witness ==
  /\ Mounted /\ currentStep = 1
  /\ projectLocation = <<481234567, 113456784>>
  /\ projectExtent = [center |-> <<-337654325, -704567891>>, radius |-> 1000]

\* C3: a press of a rotation stepper button changes the rotation by exactly
\* the button's +15 or -15, without bound or wrap-around; nothing else
\* changes the rotation of a mounted wizard; the rotation is a multiple of
\* 15 in every state.
C3_RotationSteps ==
  [][ /\ buildingRotation % 15 = 0
      /\ buildingRotation' % 15 = 0
      /\ \A delta \in {-15, 15} :
           onRotationChange(delta, ManyTurns)
             => buildingRotation' = buildingRotation + delta
      /\ (buildingRotation' # buildingRotation /\ ~handleWizardReset)
           => \/ buildingRotation' = buildingRotation + 15
              \/ buildingRotation' = buildingRotation - 15
    ]_vars

\* 25 presses of '+' from 0: the rotation is over a full turn
C3_Witness == buildingRotation = 375

\* C4: when a reverse-geocoding request of a mounted wizard settles, a
\* failure of any kind makes the search address the two coordinates printed
\* with 6 decimals (each within half a unit of the 6th decimal of the
\* requested coordinate, with its sign), a success makes it the response's
\* display name, and nothing else of the wizard changes.
C4_GeocodeFallback ==
  [][ \A req \in BagToSet(pending), outcome \in Outcomes :
        (Mounted /\ GeocodeResponse(req, outcome))
          => /\ outcome = "name"
                  => searchAddress' = [kind |-> "name", lat |-> req.lat,
                                       lng |-> req.lng]
             /\ outcome # "name"
                  => /\ searchAddress'.kind = "coords"
                     /\ searchAddress'.lat.neg = (req.lat < 0)
                     /\ searchAddress'.lng.neg = (req.lng < 0)
                     /\ \E d \in -5..5 :
                          10 * searchAddress'.lat.micro + d
                            = (IF req.lat < 0 THEN 0 - req.lat ELSE req.lat)
                     /\ \E d \in -5..5 :
                          10 * searchAddress'.lng.micro + d
                            = (IF req.lng < 0 THEN 0 - req.lng ELSE req.lng)
             /\ UNCHANGED <<currentStep, interactionMode, mapCenter, mapZoom,
                            projectLocation, projectExtent, buildingLocation,
                            buildingRotation, wizardResult, completeCalls>>
    ]_vars

\* the request of a click at (48.1234567, 11.3456784) failed and the search
\* box shows "48.123457, 11.345678"
C4_Witness ==
  /\ Mounted
  /\ searchAddress = [kind |-> "coords",
                      lat |-> [neg |-> FALSE, micro |-> 48123457],
                      lng |-> [neg |-> FALSE, micro |-> 11345678]]

\* C5: the project location, when set, has its latitude in [-90, 90] and
\* its longitude in [-180, 180], in the wizard and in the emitted result.
C5_LocationInRange ==
  /\ projectLocation # NULL
       => /\ projectLocation[1] >= -90 * Scale
          /\ projectLocation[1] <= 90 * Scale
          /\ projectLocation[2] >= -180 * Scale
          /\ projectLocation[2] <= 180 * Scale
  /\ (wizardResult # NULL /\ wizardResult[1].projectLocation # NULL)
       => /\ wizardResult[1].projectLocation[1] >= -90 * Scale
          /\ wizardResult[1].projectLocation[1] <= 90 * Scale
          /\ wizardResult[1].projectLocation[2] >= -180 * Scale
          /\ wizardResult[1].projectLocation[2] <= 180 * Scale

\* C6: the step starts at 0 and is always 0, 1 or 2; Next is pressed only
\* when canProceed holds and moves the step from k to k + 1 for k < 2 (at
\* step 2 it is Finish and keeps the step); Previous is pressed only at a
\* step k > 0 and moves it to k - 1; no other operation on a mounted wizard
\* changes the step (a reset mounts a new wizard, at step 0).
C6_LinearSteps ==
  /\ currentStep = 0
  /\ [][ /\ currentStep' \in {0, 1, 2}
         /\ handleNext
              => /\ canProceed
                 /\ currentStep' = IF currentStep < 2 THEN currentStep + 1
                                                      ELSE currentStep
         /\ handlePrevious
              => /\ currentStep > 0
                 /\ currentStep' = currentStep - 1
         /\ handleWizardReset => currentStep' = 0
         /\ currentStep' # currentStep
              => handleNext \/ handlePrevious \/ handleWizardReset
       ]_vars

\* back at step 1 after step 2: a building placed at step 2 is there
C6_Witness == Mounted /\ currentStep = 1 /\ buildingLocation # NULL

\* C7: the completion callback is invoked only by Finish (Next pressed at
\* step 2), once per press, with the record of the wizard's project
\* location, extent, building location, rotation and mode at that moment;
\* the press changes no wizard state, and no press at step 0 or 1 invokes it.
C7_FinishEmitsResult ==
  [][ /\ ((completeCalls' # completeCalls \/ wizardResult' # wizardResult)
            /\ ~handleWizardReset)
           => handleNext /\ currentStep = 2
      /\ (handleNext /\ currentStep = 2)
           => /\ completeCalls' = completeCalls + 1
              /\ wizardResult' =
                   <<[projectLocation |-> projectLocation,
                      projectExtent |-> projectExtent,
                      buildingLocation |-> buildingLocation,
                      buildingRotation |-> buildingRotation,
                      interactionMode |-> interactionMode]>>
              /\ UNCHANGED wizardVars
      /\ (handleNext /\ currentStep < 2)
           => UNCHANGED <<completeCalls, wizardResult>>
    ]_vars

\* Finish was pressed once, with a rotated building and an extent whose
\* center is not the project location
C7_Witness ==
  /\ wizardResult # NULL
  /\ completeCalls = 1
  /\ wizardResult[1].buildingRotation = 15
  /\ wizardResult[1].projectExtent.center # wizardResult[1].projectLocation

\* C8: at step 0, once no reverse-geocoding request is in flight, a search
\* address that came from reverse geocoding is the display name or the
\* fallback text of the current project location.
C8_AddressIsCurrent ==
  (/\ Mounted /\ currentStep = 0
   /\ projectLocation # NULL
   /\ pending = EmptyBag
   /\ searchAddress.kind \in {"name", "coords"})
    => \/ searchAddress = DisplayName(projectLocation[1], projectLocation[2])
       \/ searchAddress = CoordText(projectLocation[1], projectLocation[2])

\* C9: at step 1 some operation of the wizard changes the extent's radius.
C9_RadiusControl ==
  (Mounted /\ currentStep = 1)
    => ENABLED (Next /\ projectExtent'.radius # projectExtent.radius)

\* C10: the tooltip's inputs can be edited exactly when the wizard is at
\* step 0 with a project location.  Typing 90 as latitude (-180 as
\* longitude) makes the project location and the map center the pair with
\* that coordinate replaced and the other kept, and issues one request for
\* it; typing 90.0000001, "-" or nothing as latitude (180.5 or nothing as
\* longitude) changes neither the project location, the map center nor the
\* search address and issues no request.
C10_TooltipEdit ==
  [][ /\ (ENABLED handleLatChange(<<>>))
           <=> (Mounted /\ currentStep = 0 /\ projectLocation # NULL)
      /\ (ENABLED handleLngChange(<<>>))
           <=> (Mounted /\ currentStep = 0 /\ projectLocation # NULL)
      /\ \A value \in LatTexts :
           handleLatChange(value)
             => IF value = <<"9", "0">>
                THEN /\ projectLocation' = <<900000000, projectLocation[2]>>
                     /\ mapCenter' = <<900000000, projectLocation[2]>>
                     /\ pending' = pending (+)
                          SetToBag({[lat |-> 900000000,
                                     lng |-> projectLocation[2]]})
                ELSE UNCHANGED <<projectLocation, mapCenter, searchAddress,
                                 pending>>
      /\ \A value \in LngTexts :
           handleLngChange(value)
             => IF value = <<"-", "1", "8", "0">>
                THEN /\ projectLocation' = <<projectLocation[1], -1800000000>>
                     /\ mapCenter' = <<projectLocation[1], -1800000000>>
                     /\ pending' = pending (+)
                          SetToBag({[lat |-> projectLocation[1],
                                     lng |-> -1800000000]})
                ELSE UNCHANGED <<projectLocation, mapCenter, searchAddress,
                                 pending>>
    ]_vars

\* both coordinates of a clicked location were replaced by tooltip edits and
\* the request of the last edit is in flight
C10_Witness ==
  /\ Mounted /\ currentStep = 0
  /\ projectLocation = <<900000000, -1800000000>>
  /\ mapCenter = <<900000000, -1800000000>>
  /\ BagIn([lat |-> 900000000, lng |-> -1800000000], pending)

\* C11: at step 2 of a mounted wizard Finish can be pressed in every state,
\* with or without a building; pressed without one, the emitted result has
\* a null building location and rotation 0.
C11_BuildingOptional ==
  [][ /\ (Mounted /\ currentStep = 2) => (canProceed /\ ENABLED handleNext)
      /\ (Mounted' /\ currentStep' = 2) => canProceed'
      /\ (handleNext /\ currentStep = 2 /\ buildingLocation = NULL)
           => /\ wizardResult' # NULL
              /\ wizardResult'[1].buildingLocation = NULL
              /\ wizardResult'[1].buildingRotation = 0
    ]_vars

\* Finish was pressed with no building placed
C11_Witness ==
  /\ wizardResult # NULL
  /\ wizardResult[1].buildingLocation = NULL
  /\ wizardResult[1].buildingRotation = 0

\* C12: submitting the search text "95,200" at step 0 sets the project
\* location and the map center to (95, 200) and the zoom to 15, makes the
\* typed text the search address and issues no request; submitting " Oslo"
\* sets the project location and the map center to the forward-geocoding
\* result and the zoom to 15 and issues exactly one request, for that
\* point, whose outcome becomes the search address when it settles; a blank
\* text is not submitted.
C12_Search ==
  [][ /\ handleSubmit(<<"9", "5", ",", "2", "0", "0">>)
           => /\ currentStep = 0
              /\ projectLocation' = <<950000000, 2000000000>>
              /\ mapCenter' = <<950000000, 2000000000>>
              /\ mapZoom' = 15
              /\ searchAddress' = [kind |-> "typed",
                                   text |-> <<"9", "5", ",", "2", "0", "0">>]
              /\ pending' = pending
      /\ handleSubmit(<<" ", "O", "s", "l", "o">>)
           => /\ currentStep = 0
              /\ projectLocation' = <<407128000, -740060000>>
              /\ mapCenter' = <<407128000, -740060000>>
              /\ mapZoom' = 15
              /\ searchAddress' = searchAddress
              /\ pending' = pending (+)
                   SetToBag({[lat |-> 407128000, lng |-> -740060000]})
      /\ handleSubmit(<<" ", " ">>) => UNCHANGED vars
      /\ \A outcome \in Outcomes :
           (Mounted /\ GeocodeResponse([lat |-> 407128000,
                                        lng |-> -740060000], outcome))
             => /\ pending' (+) SetToBag({[lat |-> 407128000,
                                           lng |-> -740060000]}) = pending
                /\ searchAddress' =
                     IF outcome = "name"
                     THEN [kind |-> "name", lat |-> 407128000,
                           lng |-> -740060000]
                     ELSE [kind |-> "coords",
                           lat |-> [neg |-> FALSE, micro |-> 40712800],
                           lng |-> [neg |-> TRUE, micro |-> 74006000]]
    ]_vars

\* "95,200" was searched: the typed text is the search address and nothing
\* is in flight
C12_Witness ==
  /\ Mounted /\ currentStep = 0
  /\ projectLocation = <<950000000, 2000000000>>
  /\ mapCenter = <<950000000, 2000000000>>
  /\ mapZoom = 15
  /\ searchAddress = [kind |-> "typed",
                      text |-> <<"9", "5", ",", "2", "0", "0">>]
  /\ pending = EmptyBag

\* C13: a map click writes the clicked point to the field of the current
\* step (project location at step 0, extent at step 1, building location at
\* step 2) and leaves the other two, the rotation, the step, the mode, the
\* zoom and the search address as they are; the map center becomes the
\* clicked point in 'center' mode and is unchanged in 'drag' mode; pressing
\* a mode button changes nothing but the mode.
C13_ClickFrame ==
  [][ /\ \A latlng \in LatLngs :
           handleMapClick(latlng)
             => /\ currentStep = 0
                     => /\ projectLocation' = latlng
                        /\ UNCHANGED <<projectExtent, buildingLocation>>
                /\ currentStep = 1
                     => /\ projectExtent'.center = latlng
                        /\ UNCHANGED <<projectLocation, buildingLocation>>
                /\ currentStep = 2
                     => /\ buildingLocation' = latlng
                        /\ UNCHANGED <<projectLocation, projectExtent>>
                /\ UNCHANGED <<currentStep, interactionMode, mapZoom,
                               buildingRotation, searchAddress>>
                /\ interactionMode = "center" => mapCenter' = latlng
                /\ interactionMode = "drag" => mapCenter' = mapCenter
      /\ \A mode \in {"drag", "center"} :
           onModeChange(mode)
             => /\ interactionMode' = mode
                /\ UNCHANGED <<currentStep, mapCenter, mapZoom,
                               projectLocation, projectExtent,
                               buildingLocation, buildingRotation,
                               searchAddress, wizardResult, pending,
                               completeCalls>>
    ]_vars

\* a building was placed by a click in 'drag' mode after the map had been
\* centered on another point: the map center is not the clicked point
C13_Witness ==
  /\ Mounted /\ currentStep = 2
  /\ interactionMode = "drag"
  /\ buildingLocation = <<481234567, 113456784>>
  /\ mapCenter = <<-337654325, -704567891>>

\* C14: Next pressed at step 0 makes the extent the circle of radius 1000
\* around the current project location, whatever the extent was, sets the
\* map center to the project location and the zoom to 14 and moves to step
\* 1; Next pressed at step 1 changes only the step.
C14_NextResetsExtent ==
  [][ /\ (handleNext /\ currentStep = 0)
           => /\ projectExtent' = [center |-> projectLocation, radius |-> 1000]
              /\ mapCenter' = projectLocation
              /\ mapZoom' = 14
              /\ currentStep' = 1
              /\ UNCHANGED <<interactionMode, projectLocation,
                             buildingLocation, buildingRotation,
                             searchAddress, wizardResult, pending,
                             completeCalls>>
      /\ (handleNext /\ currentStep = 1)
           => /\ currentStep' = 2
              /\ UNCHANGED <<interactionMode, mapCenter, mapZoom,
                             projectLocation, projectExtent, buildingLocation,
                             buildingRotation, searchAddress, wizardResult,
                             pending, completeCalls>>
    ]_vars

\* back at step 0 with an extent whose center is not the project location:
\* the next press of Next replaces it
C14_Witness ==
  /\ Mounted /\ currentStep = 0
  /\ projectLocation = <<481234567, 113456784>>
  /\ projectExtent.center = <<-337654325, -704567891>>
  /\ canProceed

\* C15: at every step >= 1 the project location and the extent's center
\* are set; within one mounted wizard a project location, extent center or
\* building location that is set stays set; every result record passed to
\* the completion callback has a project location and an extent center.
C15_SetStaysSet ==
  [][ /\ currentStep >= 1
           => (projectLocation # NULL /\ projectExtent.center # NULL)
      /\ currentStep' >= 1
           => (projectLocation' # NULL /\ projectExtent'.center # NULL)
      /\ ~handleWizardReset
           => /\ projectLocation # NULL => projectLocation' # NULL
              /\ projectExtent.center # NULL => projectExtent'.center # NULL
              /\ buildingLocation # NULL => buildingLocation' # NULL
      /\ wizardResult' # NULL
           => /\ wizardResult'[1].projectLocation # NULL
              /\ wizardResult'[1].projectExtent.center # NULL
    ]_vars

\* a result was emitted after the project marker and the extent marker had
\* both been dragged
C15_Witness ==
  /\ wizardResult # NULL
  /\ wizardResult[1].projectLocation = <<-337654325, -704567891>>
  /\ wizardResult[1].projectExtent.center = <<-337654325, -704567891>>
  /\ wizardResult[1].buildingLocation # NULL

\* C16: the rotation of a mounted wizard changes only at step 2 with a
\* building placed; a rotation other than 0 implies a building location;
\* Previous and Next keep the rotation, so it is still there on return to
\* step 2.
C16_RotationNeedsBuilding ==
  [][ /\ (buildingRotation' # buildingRotation /\ ~handleWizardReset)
           => (Mounted /\ currentStep = 2 /\ buildingLocation # NULL)
      /\ buildingRotation # 0 => buildingLocation # NULL
      /\ buildingRotation' # 0 => buildingLocation' # NULL
      /\ (handlePrevious \/ handleNext)
           => (buildingRotation' = buildingRotation
               /\ buildingLocation' = buildingLocation)
    ]_vars

\* step 2 was left with Previous and the rotation is kept
C16_Witness ==
  /\ Mounted /\ currentStep = 0
  /\ buildingLocation # NULL
  /\ buildingRotation = -15

=============================================================================
